---- MODULE Spec2Model ----
(***************************************************************************)
(* Model of the download supervision core of m3u8-downloader:              *)
(* src/src/download.py (class Downloader, class DownloadStatus) and the    *)
(* two commands of src/src/main.py.                                        *)
(*                                                                         *)
(* A job is the Downloader object, the async generator download(), the     *)
(* asyncio task that runs FFmpeg.execute(), the ffmpeg subprocess with its *)
(* output file, and the consumer that drains the generator.                *)
(*                                                                         *)
(* Specifications:                                                         *)
(*   Spec        the callbacks are delivered by the FFmpeg event emitter   *)
(*               in the order the library produces them;                   *)
(*   FairSpec    Spec with the event loop and the consumer making progress;*)
(*   SpecInject  the five callbacks of the Downloader are invoked in any   *)
(*               order (the handlers as a unit, driven by an arbitrary     *)
(*               event source);                                            *)
(*   SpecBot     the bot: the registry Bot.downloads, the commands "d" and *)
(*               "cancel" on one output file, and up to MaxJobs jobs, each *)
(*               drained by the handler of the command that started it;    *)
(*   FairSpecBot SpecBot with the event loop making progress.              *)
(***************************************************************************)
EXTENDS Integers, Sequences, FiniteSets, TLC

\* ---------------------------------------------------------------- bounds
\* progress samples are numbered 1..MaxSample
MaxSample == 2
\* at most MaxStderrLines diagnostic lines are captured in a run
MaxStderrLines == 2
\* at most MaxCancelCalls calls of cancel_download() in a run
MaxCancelCalls == 2
\* the observation counters saturate at MaxCount
MaxCount == 3
\* at most MaxJobs Downloader objects are created by the bot in a run
MaxJobs == 2
\* at most MaxBotLines diagnostic lines are captured per job of the bot
MaxBotLines == 1

\* ------------------------------------------------------------- data model
None == "None"

\* DownloadStatus.status, download.py:141; the Literal has no failure value
PROGRESS == "PROGRESS"
COMPLETED == "COMPLETED"
TERMINATED == "TERMINATED"
\* the phase the specification calls Failed; no assignment in the code
\* produces it
FAILED == "FAILED"

TerminalPhases == {COMPLETED, TERMINATED, FAILED}

\* a Progress sample of the ffmpeg library: time, speed, size.  Sample k
\* carries k in each of its three fields, so that a status mixing two
\* samples is recognisable.
Progress(k) == [time |-> k, speed |-> k, size |-> k]

Samples == {Progress(k) : k \in 1..MaxSample}

\* a diagnostic line: either it contains "Duration: HH:MM:SS" or it does not
DiagLines ==
    { [match |-> FALSE, hms |-> <<0, 0, 0>>],
      [match |-> TRUE,  hms |-> <<0, 0, 0>>],
      [match |-> TRUE,  hms |-> <<0, 2, 30>>] }

\* datetime.timedelta(hours, minutes, seconds), in seconds
timedelta(h, m, s) == h * 3600 + m * 60 + s

\* DownloadStatus as constructed in Downloader.__init__
InitStatus ==
    [ duration     |-> timedelta(0, 0, 0),
      time         |-> timedelta(0, 0, 0),
      play_speed   |-> 0,
      current_size |-> 0,
      status       |-> PROGRESS,
      error        |-> None ]

\* the time, speed and size of a status before any sample was delivered
ZeroSample == [time |-> InitStatus.time, speed |-> InitStatus.play_speed,
               size |-> InitStatus.current_size]

\* what last_yield holds before the first yield
NoYield == [InitStatus EXCEPT !.status = "NoYield"]

Sat(n) == IF n < MaxCount THEN n + 1 ELSE MaxCount

VARIABLES
    status,          \* self._status, the one mutable DownloadStatus
    stderr,          \* self._stderr, the captured diagnostic lines
    ffmpeg_process,  \* self._ffmpeg_process: None or "FFmpeg"
    task,            \* self._task: None, pending, finished, failed, cancelled
    task_end_due,    \* on_task_end is scheduled and has not run yet
    gen,             \* position of the generator download()
    is_done,         \* the local is_done of download()
    executed,        \* FFmpeg._executed
    terminated,      \* FFmpeg._terminated
    exec_pc,         \* position of the coroutine FFmpeg.execute()
    proc,            \* the subprocess: none, running, exited
    returncode,      \* its exit code once exited: 0 or 1, else None
    proc_opened,     \* the subprocess has opened its output file
    file_exists,     \* self._output_file exists on disk
    signals,         \* termination signals sent to the subprocess (saturating)
    cancel_calls,    \* calls of cancel_download() so far
    cancel_ret,      \* outcome of the last cancel_download()
    cancel_true,     \* some cancel_download() has returned True
    cancel_live,     \* ... with the phase PROGRESS and the subprocess running
    last_yield,      \* value of the last snapshot yielded, or NoYield
    term_yields,     \* terminal snapshots yielded so far (saturating)
    late_yields,     \* non-terminal snapshots yielded after cancel_live (saturating)
    last_sample,     \* the most recent Progress sample delivered, or ZeroSample
    since_yield,     \* samples delivered since the last yield: 0, 1, 2 = several
    coalesced,       \* since_yield at the moment of the last yield
    downloads,       \* Bot.downloads: file name -> number of its Downloader
    jobs,            \* the Downloader objects created by the bot, with the
                     \* position of the command handler that drains each
    bot_file,        \* the output file of the bot's jobs exists on disk
    rejected         \* the bot has replied "Already downloading"

downloaderVars == <<status, stderr, ffmpeg_process, task, task_end_due>>
genVars == <<gen, is_done>>
libVars == <<executed, terminated, exec_pc>>
procVars == <<proc, returncode, proc_opened, file_exists, signals>>
cancelVars == <<cancel_calls, cancel_ret, cancel_true, cancel_live>>
obsVars == <<last_yield, term_yields, late_yields>>
histVars == <<last_sample, since_yield, coalesced>>
botVars == <<downloads, jobs, bot_file, rejected>>
jobVars == <<status, stderr, ffmpeg_process, task, task_end_due, gen, is_done,
             executed, terminated, exec_pc, proc, returncode, proc_opened,
             file_exists, signals, cancel_calls, cancel_ret, cancel_true,
             cancel_live, last_yield, term_yields, late_yields,
             last_sample, since_yield, coalesced>>

vars == <<status, stderr, ffmpeg_process, task, task_end_due, gen, is_done,
          executed, terminated, exec_pc, proc, returncode, proc_opened,
          file_exists, signals, cancel_calls, cancel_ret, cancel_true,
          cancel_live, last_yield, term_yields, late_yields,
          last_sample, since_yield, coalesced,
          downloads, jobs, bot_file, rejected>>

\* state after Downloader.__init__; download() has been called but, being an
\* async generator, has not run any of its body yet
Init ==
    /\ status = InitStatus
    /\ stderr = <<>>
    /\ ffmpeg_process = None
    /\ task = None
    /\ task_end_due = FALSE
    /\ gen = "notstarted"
    /\ is_done = FALSE
    /\ executed = FALSE
    /\ terminated = FALSE
    /\ exec_pc = "idle"
    /\ proc = "none"
    /\ returncode = None
    /\ proc_opened = FALSE
    /\ file_exists \in BOOLEAN
    /\ signals = 0
    /\ cancel_calls = 0
    /\ cancel_ret = None
    /\ cancel_true = FALSE
    /\ cancel_live = FALSE
    /\ last_yield = NoYield
    /\ term_yields = 0
    /\ late_yields = 0
    /\ last_sample = ZeroSample
    /\ since_yield = 0
    /\ coalesced = 0
    /\ downloads = <<>>
    /\ jobs = <<>>
    /\ bot_file = FALSE
    /\ rejected = FALSE

\* ------------------------------------------------- handlers of Downloader
\* re.search(r"Duration: (\d{2}):(\d{2}):(\d{2})", line) and the timedelta
\* built from its groups; -1 when the line does not match
ParseDuration(line) ==
    IF line.match
    THEN timedelta(line.hms[1], line.hms[2], line.hms[3])
    ELSE -1

\* Downloader.on_stderr: the status after the line; "not duration" is true
\* of the zero timedelta
on_stderr_status(st, line) ==
    IF st.duration = 0 /\ ParseDuration(line) # -1
    THEN [st EXCEPT !.duration = ParseDuration(line)]
    ELSE st

on_stderr(line) ==
    /\ Len(stderr) < MaxStderrLines
    /\ stderr' = Append(stderr, line)
    /\ status' = on_stderr_status(status, line)

\* on_progress with the assignment of play_speed left out
on_progress_status_no_speed(st, progress) ==
    [st EXCEPT !.time = progress.time,
               !.current_size = progress.size,
               !.status = PROGRESS]

\* Downloader.on_progress
on_progress_status(st, progress) ==
    [st EXCEPT !.time = progress.time,
               !.play_speed = progress.speed,
               !.current_size = progress.size,
               !.status = PROGRESS]

on_progress(progress) ==
    /\ status' = on_progress_status(status, progress)
    /\ UNCHANGED stderr

\* Downloader.on_completed
on_completed_status(st) == [st EXCEPT !.status = COMPLETED]

\* Downloader.on_terminated
on_terminated_status(st) == [st EXCEPT !.status = TERMINATED]

\* on_task_end, the done callback of self._task: task.result() raises
\* FFmpegError exactly when the task failed; any other exception of the task
\* (launch error, CancelledError) is not caught and leaves the status alone
on_task_end_status(st, t) ==
    IF t = "failed" THEN [st EXCEPT !.error = "FFmpegError"] ELSE st

\* -------------------------------------------------- generator download()
\* a yield of the status: what the consumer receives at this moment
Yield(st) ==
    /\ last_yield' = st
    /\ term_yields' = IF st.status \in TerminalPhases
                      THEN Sat(term_yields) ELSE term_yields
    /\ late_yields' = IF cancel_live /\ st.status \notin TerminalPhases
                      THEN Sat(late_yields) ELSE late_yields
    /\ coalesced' = since_yield
    /\ since_yield' = 0
    /\ UNCHANGED last_sample

\* the object handed to the consumer by "yield self._status": the status
\* object itself, so what the consumer reads in it is the current status
YieldedObject == status

\* one pass of "while True" from its head to the next suspension point,
\* download.py:114-131, for the task state t, the status st and is_done done:
\* where the generator stops and the value of is_done
LoopStep(t, st, done) ==
    IF done
    THEN [gen |-> "ended", is_done |-> done]
    ELSE IF t = "cancelled"
    THEN [gen |-> "yielded", is_done |-> TRUE]
    ELSE IF st.status = COMPLETED \/ st.status = TERMINATED
    THEN [gen |-> "yielded", is_done |-> TRUE]
    ELSE [gen |-> "sleeping", is_done |-> done]

LoopTop(t, st, done) ==
    /\ gen' = LoopStep(t, st, done).gen
    /\ is_done' = LoopStep(t, st, done).is_done
    /\ IF LoopStep(t, st, done).gen = "yielded"
       THEN Yield(st)
       ELSE UNCHANGED <<obsVars, histVars>>

\* first step of the generator: builds the FFmpeg object, registers the
\* handlers, creates the task and enters the loop
download_start ==
    /\ gen = "notstarted"
    /\ ffmpeg_process' = "FFmpeg"
    /\ task' = "pending"
    /\ exec_pc' = "created"
    /\ LoopTop("pending", status, FALSE)
    /\ UNCHANGED <<status, stderr, task_end_due, executed, terminated>>
    /\ UNCHANGED <<procVars, cancelVars>>
    /\ UNCHANGED botVars

\* asyncio.sleep(self._progress_interval) is over: yield self._status
download_wake ==
    /\ gen = "sleeping"
    /\ gen' = "yielded"
    /\ Yield(status)
    /\ UNCHANGED <<is_done, downloaderVars, libVars, procVars, cancelVars>>
    /\ UNCHANGED botVars

\* the consumer asks for the next item: the generator resumes after its
\* yield and runs to the next suspension point
download_resume ==
    /\ gen = "yielded"
    /\ LoopTop(task, status, is_done)
    /\ UNCHANGED <<downloaderVars, libVars, procVars, cancelVars>>
    /\ UNCHANGED botVars

\* ------------------------------------------- the task FFmpeg.execute()
\* execute() starts: the subprocess is created and the reader tasks start
execute_spawn ==
    /\ exec_pc = "created"
    /\ exec_pc' = "waiting"
    /\ executed' = TRUE
    /\ terminated' = FALSE
    /\ proc' = "running"
    /\ UNCHANGED <<returncode, proc_opened, file_exists, signals>>
    /\ UNCHANGED <<downloaderVars, genVars, cancelVars, obsVars, histVars>>
    /\ UNCHANGED botVars

\* execute() starts and the binary cannot be started: create_subprocess
\* raises (FileNotFoundError, PermissionError), the task is done with that
\* exception and its done callback is scheduled
execute_launch_error ==
    /\ exec_pc = "created"
    /\ exec_pc' = "done"
    /\ task' = "launch_failed"
    /\ task_end_due' = TRUE
    /\ UNCHANGED <<status, stderr, ffmpeg_process, executed, terminated>>
    /\ UNCHANGED <<genVars, procVars, cancelVars, obsVars, histVars>>
    /\ UNCHANGED botVars

\* the stderr reader of the library is delivering lines
ReaderActive ==
    \/ exec_pc = "waiting"
    \/ exec_pc = "cancelled" /\ proc = "running"

\* ffmpeg.on("stderr", self.on_stderr)
emit_stderr(line) ==
    /\ ReaderActive
    /\ on_stderr(line)
    /\ UNCHANGED <<ffmpeg_process, task, task_end_due>>
    /\ UNCHANGED <<genVars, libVars, procVars, cancelVars, obsVars, histVars>>
    /\ UNCHANGED botVars

\* ffmpeg.on("progress", self.on_progress)
emit_progress(progress) ==
    /\ ReaderActive
    /\ on_progress(progress)
    /\ UNCHANGED <<ffmpeg_process, task, task_end_due>>
    /\ UNCHANGED <<genVars, libVars, procVars, cancelVars, obsVars, coalesced>>
    /\ last_sample' = progress
    /\ since_yield' = IF since_yield < 2 THEN since_yield + 1 ELSE 2
    /\ UNCHANGED botVars

\* execute() resumes after the subprocess has exited: it emits "completed"
\* or "terminated", or raises FFmpegError; the task is done and its done
\* callback is scheduled
execute_finish ==
    /\ exec_pc = "waiting"
    /\ proc = "exited"
    /\ exec_pc' = "done"
    /\ executed' = FALSE
    /\ task_end_due' = TRUE
    /\ IF returncode = 0
       THEN /\ status' = on_completed_status(status)
            /\ task' = "finished"
       ELSE IF terminated
       THEN /\ status' = on_terminated_status(status)
            /\ task' = "finished"
       ELSE /\ status' = status
            /\ task' = "failed"
    /\ UNCHANGED <<stderr, ffmpeg_process, terminated>>
    /\ UNCHANGED <<genVars, procVars, cancelVars, obsVars, histVars>>
    /\ UNCHANGED botVars

\* self._task.add_done_callback(on_task_end): the callback runs
on_task_end ==
    /\ task_end_due
    /\ task_end_due' = FALSE
    /\ status' = on_task_end_status(status, task)
    /\ UNCHANGED <<stderr, ffmpeg_process, task>>
    /\ UNCHANGED <<genVars, libVars, procVars, cancelVars, obsVars, histVars>>
    /\ UNCHANGED botVars

\* the task is cancelled through asyncio (Task.cancel(), not
\* cancel_download): execute() is abandoned where it waits, _executed keeps
\* its value, the subprocess and the stderr reader are left running
task_cancel ==
    /\ task = "pending"
    /\ exec_pc \in {"created", "waiting"}
    /\ task' = "cancelled"
    /\ exec_pc' = "cancelled"
    /\ task_end_due' = TRUE
    /\ UNCHANGED <<status, stderr, ffmpeg_process, executed, terminated>>
    /\ UNCHANGED <<genVars, procVars, cancelVars, obsVars, histVars>>
    /\ UNCHANGED botVars

\* ------------------------------------------------------ the subprocess
\* the subprocess opens (creates) its output file
proc_open_output ==
    /\ proc = "running"
    /\ ~proc_opened
    /\ proc_opened' = TRUE
    /\ file_exists' = TRUE
    /\ UNCHANGED <<proc, returncode, signals>>
    /\ UNCHANGED <<downloaderVars, genVars, libVars, cancelVars, obsVars, histVars>>
    /\ UNCHANGED botVars

\* the subprocess exits with code rc
proc_exit(rc) ==
    /\ proc = "running"
    /\ proc' = "exited"
    /\ returncode' = rc
    /\ UNCHANGED <<proc_opened, file_exists, signals>>
    /\ UNCHANGED <<downloaderVars, genVars, libVars, cancelVars, obsVars, histVars>>
    /\ UNCHANGED botVars

\* ------------------------------------------- Downloader.cancel_download
\* self._output_file.unlink() with FileNotFoundError swallowed
unlink == file_exists' = FALSE

\* FFmpeg.terminate() raises FFmpegError when _executed is false
cancel_raise ==
    /\ ffmpeg_process # None
    /\ ~executed
    /\ cancel_ret' = "raised"
    /\ UNCHANGED <<cancel_true, cancel_live, terminated, file_exists, signals>>

\* FFmpeg.terminate() signals the running subprocess, the file is removed
cancel_signal ==
    /\ ffmpeg_process # None
    /\ executed
    /\ proc = "running"
    /\ terminated' = TRUE
    /\ signals' = Sat(signals)
    /\ unlink
    /\ cancel_ret' = "True"
    /\ cancel_true' = TRUE
    /\ cancel_live' = (cancel_live \/ status.status = PROGRESS)

\* FFmpeg.terminate() when the subprocess has exited and execute() has not
\* resumed yet: send_signal finds the process gone, and either does nothing
\* or raises ProcessLookupError
cancel_gone ==
    /\ ffmpeg_process # None
    /\ executed
    /\ proc = "exited"
    /\ terminated' = TRUE
    /\ UNCHANGED <<signals, cancel_live>>
    /\ \/ unlink /\ cancel_ret' = "True" /\ cancel_true' = TRUE
       \/ file_exists' = file_exists /\ cancel_ret' = "raised"
                                      /\ cancel_true' = cancel_true

\* no FFmpeg object yet: return False
cancel_noop ==
    /\ ffmpeg_process = None
    /\ cancel_ret' = "False"
    /\ UNCHANGED <<cancel_true, cancel_live, terminated, file_exists, signals>>

cancel_download ==
    /\ cancel_calls < MaxCancelCalls
    /\ cancel_calls' = cancel_calls + 1
    /\ \/ cancel_noop
       \/ cancel_raise
       \/ cancel_signal
       \/ cancel_gone
    /\ UNCHANGED <<executed, exec_pc, proc, returncode, proc_opened>>
    /\ UNCHANGED <<downloaderVars, genVars, obsVars, histVars>>
    /\ UNCHANGED botVars

\* ----------------------------------------------------- specification Spec
Next ==
    \/ download_start
    \/ download_wake
    \/ download_resume
    \/ execute_spawn
    \/ execute_launch_error
    \/ \E line \in DiagLines : emit_stderr(line)
    \/ \E progress \in Samples : emit_progress(progress)
    \/ execute_finish
    \/ on_task_end
    \/ task_cancel
    \/ proc_open_output
    \/ \E rc \in {0, 1} : proc_exit(rc)
    \/ cancel_download

Spec == Init /\ [][Next]_vars

\* the event loop runs every ready callback and expired timer, and the
\* consumer keeps asking for the next item
Fairness ==
    /\ WF_vars(download_start)
    /\ WF_vars(download_wake)
    /\ WF_vars(download_resume)
    /\ WF_vars(execute_spawn)
    /\ WF_vars(execute_finish)
    /\ WF_vars(on_task_end)

FairSpec == Spec /\ Fairness

\* ----------------------------------------------- specification SpecInject
\* the handlers of the Downloader invoked in any order
inject_stderr(line) ==
    /\ on_stderr(line)
    /\ UNCHANGED <<ffmpeg_process, task, task_end_due>>
    /\ UNCHANGED <<genVars, libVars, procVars, cancelVars, obsVars, histVars>>
    /\ UNCHANGED botVars

inject_progress(progress) ==
    /\ on_progress(progress)
    /\ UNCHANGED <<ffmpeg_process, task, task_end_due>>
    /\ UNCHANGED <<genVars, libVars, procVars, cancelVars, obsVars, coalesced>>
    /\ last_sample' = progress
    /\ since_yield' = IF since_yield < 2 THEN since_yield + 1 ELSE 2
    /\ UNCHANGED botVars

inject_completed ==
    /\ status' = on_completed_status(status)
    /\ UNCHANGED <<stderr, ffmpeg_process, task, task_end_due>>
    /\ UNCHANGED <<genVars, libVars, procVars, cancelVars, obsVars, histVars>>
    /\ UNCHANGED botVars

inject_terminated ==
    /\ status' = on_terminated_status(status)
    /\ UNCHANGED <<stderr, ffmpeg_process, task, task_end_due>>
    /\ UNCHANGED <<genVars, libVars, procVars, cancelVars, obsVars, histVars>>
    /\ UNCHANGED botVars

inject_task_end_error ==
    /\ status' = on_task_end_status(status, "failed")
    /\ UNCHANGED <<stderr, ffmpeg_process, task, task_end_due>>
    /\ UNCHANGED <<genVars, libVars, procVars, cancelVars, obsVars, histVars>>
    /\ UNCHANGED botVars

NextInject ==
    \/ \E line \in DiagLines : inject_stderr(line)
    \/ \E progress \in Samples : inject_progress(progress)
    \/ inject_completed
    \/ inject_terminated
    \/ inject_task_end_error

SpecInject == Init /\ [][NextInject]_vars

TypeOK ==
    /\ status.status \in {PROGRESS, COMPLETED, TERMINATED}
    /\ status.error \in {None, "FFmpegError"}
    /\ Len(stderr) <= MaxStderrLines
    /\ task \in {None, "pending", "finished", "failed", "cancelled",
                "launch_failed"}
    /\ gen \in {"notstarted", "sleeping", "yielded", "ended"}
    /\ proc \in {"none", "running", "exited"}
    /\ cancel_ret \in {None, "True", "False", "raised"}

\* ------------------------------------------------- the bot, src/src/main.py
\* a file name typed in a command: a stem, followed or not by ".mp4"
Names == { <<"a">>, <<"a", ".mp4">> }

\* file_name.endswith(".mp4")
EndsWithMp4(name) == Len(name) > 0 /\ name[Len(name)] = ".mp4"

\* "if not file_name.endswith(".mp4"): file_name += ".mp4""
Normalize(name) == IF EndsWithMp4(name) THEN name ELSE Append(name, ".mp4")

\* the diagnostic lines delivered to the jobs of the bot
BotLines == { [match |-> FALSE, hms |-> <<0, 0, 0>>] }

\* the registry test that accepts every name
IsRegisteredNever(d, key) == FALSE

\* "file_name in ctx.bot.downloads"
IsRegistered(d, key) == key \in DOMAIN d

\* ctx.bot.downloads[file_name] = downloader
Put(d, key, j) == [k \in DOMAIN d \cup {key} |-> IF k = key THEN j ELSE d[k]]

\* ctx.bot.downloads.pop(file_name, None)
Pop(d, key) == [k \in DOMAIN d \ {key} |-> d[k]]

\* Downloader(url, progress_interval=3, output_file=file_name) followed by
\* .download(), which runs nothing yet; the handler awaits ctx.reply
NewJob(key) ==
    [ file           |-> key,
      h              |-> "replying",
      status         |-> InitStatus,
      stderr         |-> <<>>,
      ffmpeg_process |-> None,
      task           |-> None,
      task_end_due   |-> FALSE,
      gen            |-> "notstarted",
      is_done        |-> FALSE,
      executed       |-> FALSE,
      terminated     |-> FALSE,
      exec_pc        |-> "idle",
      proc           |-> "none",
      returncode     |-> None,
      proc_opened    |-> FALSE,
      signals        |-> 0,
      acked          |-> FALSE ]

JobIds == 1..Len(jobs)

\* job j is the one the registry holds under its file name
Registered(j) ==
    /\ j \in JobIds
    /\ IsRegistered(downloads, jobs[j].file)
    /\ downloads[jobs[j].file] = j

\* the body of "async for progress in progress_iter" for one item, up to its
\* await: where the handler stops.  stderr.splitlines().pop() raises
\* IndexError on an empty capture
Consume(job) ==
    IF job.status.error # None
    THEN IF job.stderr = <<>> THEN "crashed" ELSE "editing_err"
    ELSE "editing"

\* the handler asks the generator of job for its next item: the generator
\* runs from the head of its loop, and the handler with it
Advance(job) ==
    LET r == LoopStep(job.task, job.status, job.is_done)
        g == [job EXCEPT !.gen = r.gen, !.is_done = r.is_done]
    IN  IF r.gen = "ended" THEN [g EXCEPT !.h = "done"]
        ELSE IF r.gen = "yielded" THEN [g EXCEPT !.h = Consume(g)]
        ELSE [g EXCEPT !.h = "waiting"]

\* what Advance does to the registry: the loop is over, main.py:87
AdvanceRegistry(job) ==
    IF Advance(job).h = "done" THEN Pop(downloads, job.file) ELSE downloads

\* the command "d url file_name"
bot_download(name) ==
    /\ IF IsRegistered(downloads, Normalize(name))
       THEN /\ rejected' = TRUE
            /\ UNCHANGED <<downloads, jobs>>
       ELSE /\ Len(jobs) < MaxJobs
            /\ jobs' = Append(jobs, NewJob(Normalize(name)))
            /\ downloads' = Put(downloads, Normalize(name), Len(jobs) + 1)
            /\ UNCHANGED rejected
    /\ UNCHANGED bot_file
    /\ UNCHANGED jobVars

\* ctx.reply("Downloading..") is over: the loop asks for the first item, the
\* generator starts (download.py:82-110) and enters its loop
bot_reply_done(j) ==
    /\ j \in JobIds
    /\ jobs[j].h = "replying"
    /\ jobs' = [jobs EXCEPT ![j] =
                  Advance([jobs[j] EXCEPT !.ffmpeg_process = "FFmpeg",
                                          !.task = "pending",
                                          !.exec_pc = "created"])]
    /\ downloads' = AdvanceRegistry([jobs[j] EXCEPT !.task = "pending"])
    /\ UNCHANGED <<bot_file, rejected>>
    /\ UNCHANGED jobVars

\* the sleep of the generator is over: it yields the status and the body of
\* the loop runs on it
bot_wake(j) ==
    /\ j \in JobIds
    /\ jobs[j].h = "waiting"
    /\ jobs' = [jobs EXCEPT ![j] =
                  [jobs[j] EXCEPT !.gen = "yielded", !.h = Consume(jobs[j])]]
    /\ UNCHANGED <<downloads, bot_file, rejected>>
    /\ UNCHANGED jobVars

\* reply_message.edit of the progress is over: the loop asks for the next item
bot_edit_done(j) ==
    /\ j \in JobIds
    /\ jobs[j].h = "editing"
    /\ jobs' = [jobs EXCEPT ![j] = Advance(jobs[j])]
    /\ downloads' = AdvanceRegistry(jobs[j])
    /\ UNCHANGED <<bot_file, rejected>>
    /\ UNCHANGED jobVars

\* reply_message.edit of the error is over: break, then main.py:87
bot_edit_err_done(j) ==
    /\ j \in JobIds
    /\ jobs[j].h = "editing_err"
    /\ jobs' = [jobs EXCEPT ![j].h = "done"]
    /\ downloads' = Pop(downloads, jobs[j].file)
    /\ UNCHANGED <<bot_file, rejected>>
    /\ UNCHANGED jobVars

\* cancel_download() of job j, followed by the pop and the reply of
\* main.py:100-101 when it returns
bot_cancel_job(j) ==
    \/ /\ jobs[j].ffmpeg_process = None
       /\ jobs' = [jobs EXCEPT ![j].acked = TRUE]
       /\ downloads' = Pop(downloads, jobs[j].file)
       /\ UNCHANGED bot_file
    \/ /\ jobs[j].ffmpeg_process # None
       /\ ~jobs[j].executed
       /\ UNCHANGED <<jobs, downloads, bot_file>>
    \/ /\ jobs[j].ffmpeg_process # None
       /\ jobs[j].executed
       /\ jobs[j].proc = "running"
       /\ jobs' = [jobs EXCEPT ![j].terminated = TRUE,
                               ![j].signals = Sat(jobs[j].signals),
                               ![j].acked = TRUE]
       /\ bot_file' = FALSE
       /\ downloads' = Pop(downloads, jobs[j].file)
    \/ /\ jobs[j].ffmpeg_process # None
       /\ jobs[j].executed
       /\ jobs[j].proc = "exited"
       /\ \/ /\ jobs' = [jobs EXCEPT ![j].terminated = TRUE, ![j].acked = TRUE]
             /\ bot_file' = FALSE
             /\ downloads' = Pop(downloads, jobs[j].file)
          \/ /\ jobs' = [jobs EXCEPT ![j].terminated = TRUE]
             /\ UNCHANGED <<downloads, bot_file>>

\* the command "cancel name"
bot_cancel(name) ==
    /\ IF IsRegistered(downloads, Normalize(name))
       THEN bot_cancel_job(downloads[Normalize(name)])
       ELSE UNCHANGED <<jobs, downloads, bot_file>>
    /\ UNCHANGED rejected
    /\ UNCHANGED jobVars

\* FFmpeg.execute() of job j starts its subprocess
bot_execute_spawn(j) ==
    /\ j \in JobIds
    /\ jobs[j].exec_pc = "created"
    /\ jobs' = [jobs EXCEPT ![j].exec_pc = "waiting",
                            ![j].executed = TRUE,
                            ![j].terminated = FALSE,
                            ![j].proc = "running"]
    /\ UNCHANGED <<downloads, bot_file, rejected>>
    /\ UNCHANGED jobVars

\* FFmpeg.execute() of job j cannot start the binary
bot_execute_launch_error(j) ==
    /\ j \in JobIds
    /\ jobs[j].exec_pc = "created"
    /\ jobs' = [jobs EXCEPT ![j].exec_pc = "done",
                            ![j].task = "launch_failed",
                            ![j].task_end_due = TRUE]
    /\ UNCHANGED <<downloads, bot_file, rejected>>
    /\ UNCHANGED jobVars

\* a diagnostic line of the subprocess of job j reaches on_stderr
bot_emit_stderr(j, line) ==
    /\ j \in JobIds
    /\ jobs[j].exec_pc = "waiting"
    /\ Len(jobs[j].stderr) < MaxBotLines
    /\ jobs' = [jobs EXCEPT ![j].stderr = Append(jobs[j].stderr, line),
                            ![j].status = on_stderr_status(jobs[j].status, line)]
    /\ UNCHANGED <<downloads, bot_file, rejected>>
    /\ UNCHANGED jobVars

\* the subprocess of job j opens (creates) the output file
bot_proc_open_output(j) ==
    /\ j \in JobIds
    /\ jobs[j].proc = "running"
    /\ ~jobs[j].proc_opened
    /\ jobs' = [jobs EXCEPT ![j].proc_opened = TRUE]
    /\ bot_file' = TRUE
    /\ UNCHANGED <<downloads, rejected>>
    /\ UNCHANGED jobVars

\* the subprocess of job j exits with code rc
bot_proc_exit(j, rc) ==
    /\ j \in JobIds
    /\ jobs[j].proc = "running"
    /\ jobs' = [jobs EXCEPT ![j].proc = "exited", ![j].returncode = rc]
    /\ UNCHANGED <<downloads, bot_file, rejected>>
    /\ UNCHANGED jobVars

\* FFmpeg.execute() of job j resumes after the exit of its subprocess
bot_execute_finish(j) ==
    /\ j \in JobIds
    /\ jobs[j].exec_pc = "waiting"
    /\ jobs[j].proc = "exited"
    /\ jobs' = [jobs EXCEPT
                  ![j].exec_pc = "done",
                  ![j].executed = FALSE,
                  ![j].task_end_due = TRUE,
                  ![j].status = IF jobs[j].returncode = 0
                                THEN on_completed_status(jobs[j].status)
                                ELSE IF jobs[j].terminated
                                THEN on_terminated_status(jobs[j].status)
                                ELSE jobs[j].status,
                  ![j].task = IF jobs[j].returncode = 0 \/ jobs[j].terminated
                              THEN "finished" ELSE "failed"]
    /\ UNCHANGED <<downloads, bot_file, rejected>>
    /\ UNCHANGED jobVars

\* the done callback on_task_end of job j runs
bot_on_task_end(j) ==
    /\ j \in JobIds
    /\ jobs[j].task_end_due
    /\ jobs' = [jobs EXCEPT
                  ![j].task_end_due = FALSE,
                  ![j].status = on_task_end_status(jobs[j].status, jobs[j].task)]
    /\ UNCHANGED <<downloads, bot_file, rejected>>
    /\ UNCHANGED jobVars

\* Progress samples are not delivered to the jobs of the bot: on_progress
\* writes time, play_speed and current_size, which no branch of the two
\* command handlers reads, and status, which is PROGRESS whenever the library
\* delivers a sample.  No code of the bot cancels the task of a job.
NextBot ==
    \/ \E name \in Names : bot_download(name)
    \/ \E name \in Names : bot_cancel(name)
    \/ \E j \in 1..MaxJobs : bot_reply_done(j)
    \/ \E j \in 1..MaxJobs : bot_wake(j)
    \/ \E j \in 1..MaxJobs : bot_edit_done(j)
    \/ \E j \in 1..MaxJobs : bot_edit_err_done(j)
    \/ \E j \in 1..MaxJobs : bot_execute_spawn(j)
    \/ \E j \in 1..MaxJobs : bot_execute_launch_error(j)
    \/ \E j \in 1..MaxJobs, line \in BotLines : bot_emit_stderr(j, line)
    \/ \E j \in 1..MaxJobs : bot_proc_open_output(j)
    \/ \E j \in 1..MaxJobs, rc \in {0, 1} : bot_proc_exit(j, rc)
    \/ \E j \in 1..MaxJobs : bot_execute_finish(j)
    \/ \E j \in 1..MaxJobs : bot_on_task_end(j)

\* the bot after on_ready: no job yet, no output file
InitBot == Init /\ ~file_exists

SpecBot == InitBot /\ [][NextBot]_vars

\* the event loop runs every ready callback and expired timer of every job
FairnessBot ==
    \A j \in 1..MaxJobs :
        /\ WF_vars(bot_reply_done(j))
        /\ WF_vars(bot_wake(j))
        /\ WF_vars(bot_edit_done(j))
        /\ WF_vars(bot_edit_err_done(j))
        /\ WF_vars(bot_execute_spawn(j))
        /\ WF_vars(bot_execute_finish(j))
        /\ WF_vars(bot_on_task_end(j))

FairSpecBot == SpecBot /\ FairnessBot

\* ================================================================ claims

\* C1: once the phase is Completed, Terminated or Failed, no later callback
\* changes it, whatever the order of the callbacks.
C1_PhaseAbsorbing ==
    [][status.status \in TerminalPhases => status'.status = status.status]_vars

\* C2: the generator yields at most one snapshot whose phase is terminal.
C2_OneTerminalSnapshot == term_yields <= 1

\* C3: when the generator has ended, the last snapshot it yielded carries a
\* terminal phase.
C3_EndsWithTerminalSnapshot ==
    gen = "ended" => last_yield.status \in TerminalPhases

\* C4: after a cancel_download() made while the phase is PROGRESS and the
\* subprocess is running, at most one more non-terminal snapshot is yielded,
\* and the generator ends on a snapshot with the phase TERMINATED.  Stated
\* for the runs in which the task is not cancelled through asyncio (C8 is
\* about those).
C4_CancelEndsWithinOnePoll ==
    (cancel_live /\ task # "cancelled") =>
        /\ late_yields <= 1
        /\ gen = "ended" => last_yield.status = TERMINATED

\* C5: once the phase is terminal, no later event changes the duration, the
\* elapsed time, the speed, the size or the error of the status.
C5_FieldsFrozenOnceTerminal ==
    [][status.status \in TerminalPhases =>
         /\ status'.duration = status.duration
         /\ status'.time = status.time
         /\ status'.play_speed = status.play_speed
         /\ status'.current_size = status.current_size
         /\ status'.error = status.error]_vars

\* C6: the status carries an error if and only if its phase is Failed.
C6_ErrorIffFailed ==
    (status.error # None) <=> (status.status = FAILED)

\* C7: once the task running the subprocess has failed, the generator
\* eventually ends.
C7_FailureEndsIteration ==
    (task = "failed") ~> (gen = "ended")

\* C8: when the task was cancelled through asyncio, the subprocess has been
\* signalled and the generator ends on a snapshot with the phase TERMINATED,
\* as it does after cancel_download().
C8_CancelledTaskEndsTerminated ==
    (task = "cancelled" /\ gen = "ended") =>
        /\ last_yield.status = TERMINATED
        /\ signals > 0

\* C9: cancel_download() returns False, sends no signal and raises nothing
\* when no subprocess is running or an earlier cancel_download() has already
\* signalled it; it returns True only when it signalled a running subprocess.
C9_CancelIdempotent ==
    [][cancel_calls' # cancel_calls =>
         /\ (proc # "running" \/ cancel_true) =>
                (cancel_ret' = "False" /\ signals' = signals)
         /\ cancel_ret' = "True" => (proc = "running" /\ signals' # signals)]_vars

\* C10: after a cancel_download() that returned True and after the generator
\* has ended, the output file does not exist.  Stated for the runs in which
\* the task is not cancelled through asyncio (C8 is about those).
C10_NoFileAfterCancel ==
    (cancel_true /\ task # "cancelled" /\ gen = "ended") => ~file_exists

\* C12: a snapshot handed to the consumer keeps the field values it had when
\* it was yielded.
C12_SnapshotByValue ==
    last_yield.status # "NoYield" => YieldedObject = last_yield

\* C13: the duration changes only on the first diagnostic line that matches
\* the duration pattern; later matching lines and non-matching lines leave it
\* alone.
C13_DurationSetOnce ==
    [][status'.duration # status.duration =>
         /\ \A i \in 1..Len(stderr) : ~stderr[i].match
         /\ Len(stderr') = Len(stderr) + 1
         /\ stderr'[Len(stderr')].match]_vars

\* C14: when the binary cannot be started, the failure is recorded on the
\* status once the done callback has run, and the generator ends.
C14_LaunchErrorSurfaced ==
    /\ [](task = "launch_failed" /\ ~task_end_due => status.error # None)
    /\ (task = "launch_failed") ~> (gen = "ended")

\* C16: every snapshot yielded has the time, speed and size of the most
\* recent progress sample delivered before the yield (the initial zeros when
\* there was none).
C16_SnapshotIsLastSample ==
    [][(download_wake \/ ((download_start \/ download_resume) /\ gen' = "yielded")) =>
         /\ last_yield'.time = last_sample.time
         /\ last_yield'.play_speed = last_sample.speed
         /\ last_yield'.current_size = last_sample.size]_vars

\* several samples were delivered between two polls and the snapshot yielded
\* carries the last of them
C16_Witness ==
    /\ gen = "yielded"
    /\ coalesced = 2
    /\ since_yield = 0
    /\ last_sample # ZeroSample
    /\ last_yield.status = PROGRESS
    /\ last_yield.time = last_sample.time

\* C11: a start-download for a file name whose key is registered changes
\* neither the registry nor the jobs; one for a key that is not registered
\* creates a job and registers it under the key.
C11_RegistryRejectsDuplicates ==
    [][\A name \in Names :
         bot_download(name) =>
             IF Normalize(name) \in DOMAIN downloads
             THEN downloads' = downloads /\ jobs' = jobs
             ELSE /\ Len(jobs') = Len(jobs) + 1
                  /\ Normalize(name) \in DOMAIN downloads'
                  /\ downloads'[Normalize(name)] = Len(jobs')]_vars

\* a start-download was rejected, and after the first job was unregistered a
\* second job was accepted under the same file name
C11_Witness ==
    /\ rejected
    /\ Len(jobs) >= 2
    /\ jobs[1].file = jobs[2].file
    /\ Registered(2)

\* C15: a registered job whose subprocess has exited is eventually
\* unregistered.
C15_EndedJobUnregistered ==
    \A j \in 1..MaxJobs :
        (j \in JobIds /\ jobs[j].proc = "exited" /\ Registered(j))
            ~> ~Registered(j)

\* C17: after an acknowledged cancel of a job, its subprocess is not running
\* unless it has been signalled.
C17_CancelEffective ==
    \A j \in JobIds :
        jobs[j].acked => (jobs[j].proc # "running" \/ jobs[j].signals > 0)

\* C18: a job whose iteration is in progress and that has not been cancelled
\* is registered under its file name.
C18_DrainUnregistersOwnEntry ==
    \A j \in JobIds :
        (jobs[j].h \in {"waiting", "editing"} /\ ~jobs[j].acked) => Registered(j)

\* C19: no two subprocesses of jobs with the same file name are alive at the
\* same time, and no later job for a file name exists while the subprocess of
\* an earlier one has been signalled and has not exited.
C19_OneWriterPerFile ==
    \A j1, j2 \in JobIds :
        (j1 < j2 /\ jobs[j1].file = jobs[j2].file) =>
            /\ ~(jobs[j1].proc = "running" /\ jobs[j2].proc = "running")
            /\ ~(jobs[j1].proc = "running" /\ jobs[j1].signals > 0)

====
